---- MODULE Spec2Model ----
(***************************************************************************)
(* A model of the notes API (notesapi/v1): the Note table, the annotation *)
(* create / read / update / delete / retire / list handlers of views.py,  *)
(* the search view's routing, filter stages and Record Store query, the   *)
(* page envelope of the paginator and the token permission.               *)
(*                                                                         *)
(* Spec takes the handlers one at a time; WorkersSpec lets the queries of *)
(* two workers interleave; SearchSpec, PageSpec and ReadSpec put reads    *)
(* over the tables that creates build; PermissionSpec is the permission   *)
(* check alone.                                                            *)
(*                                                                         *)
(* Strings that are searched (text, tags, the search term) are sequences  *)
(* of one-character strings, so that substring and case folding are       *)
(* computed, not assumed.                                                  *)
(***************************************************************************)
EXTENDS Integers, Sequences, FiniteSets, TLC

\* ------------------------------------------------------------------ bounds

\* settings.MAX_NOTES_PER_COURSE, scaled down (read at views.py:415).
MAX_NOTES_PER_COURSE == 1
\* Notes ever created in one behaviour (ids 1..MaxId).
MaxId == 2
\* Last value of the clock that stamps created / updated.
MaxClock == 1
\* Largest page number a request asks for.
MaxPage == 3
\* Largest page_size a request asks for.
MaxPageSize == 2

\* ------------------------------------------------------------------ values

\* None, the value of a field that was given no value.
Null == "null"

Ids == 1..MaxId

\* text values (character sequences)
TextA == <<"A">>
TextB == <<"b">>
\* tag lists (lists of character sequences)
TagsA == << <<"a">> >>
TagsB == << <<"b">> >>
\* one range descriptor; its content is never inspected by the handlers
Range1 == "r1"

\* ------------------------------------------------------------------ state

VARIABLES
    notes,      \* the Note table: a set of rows
    nextId,     \* the table's AUTO_INCREMENT counter
    now,        \* the clock read by auto_now / auto_now_add
    esDisabled, \* settings.ES_DISABLED
    resp,       \* the last request handled and the response it got
    inflight,   \* per worker: the create it holds between count and save
    erased      \* history: the users retired, no later create of theirs saved

vars == <<notes, nextId, now, esDisabled, resp, inflight, erased>>

\* ------------------------------------------------------------------ helpers

\* Note.objects.get(id=...): the rows with that primary key (none or one).
ById(id) == {n \in notes : n.id = id}

\* The bodies of responses that carry no note: nothing, the quota message
\* (formatted with the maximum) or the not-found text. A response that
\* carries a note has the field `note` instead of `body`.
NoBody == [type |-> "none"]

\* HTTP statuses; 500 stands for an exception no handler catches.
Created == "201_created"
Ok == "200_ok"
NoContent == "204_no_content"
BadRequest == "400_bad_request"
NotFound == "404_not_found"
Forbidden == "403_forbidden"
Unhandled == "500_unhandled_exception"

QuotaBody == [type |-> "error_msg", max_num |-> MAX_NOTES_PER_COURSE]
NotFoundBody == [type |-> "text", text |-> "Annotation not found!"]

\* The clock values a save may read (auto_now, auto_now_add): time does not
\* run backwards. Handlers that save nothing do not read the clock.
Times == {t \in now..(now + 1) : t <= MaxClock}

\* The keys in use in a table.
KeysOf(table) == {n.id : n \in table}

\* ------------------------------------------------------------------ strings

RECURSIVE Concat(_)
\* The concatenation of a sequence of sequences.
Concat(ss) == IF ss = <<>> THEN <<>> ELSE Head(ss) \o Concat(Tail(ss))

\* str.lower() on one character of the alphabet.
LowerChar(c) == CASE c = "A" -> "a" [] c = "B" -> "b" [] OTHER -> c

Lower(s) == [i \in 1..Len(s) |-> LowerChar(s[i])]

\* JSON string escaping of one character.
EscapeChar(c) == IF c = "\"" THEN <<"\\", "\"">>
                 ELSE IF c = "\\" THEN <<"\\", "\\">> ELSE <<c>>

\* json.dumps of a string.
JsonString(s) == <<"\"">> \o Concat([i \in 1..Len(s) |-> EscapeChar(s[i])]) \o <<"\"">>

\* json.dumps of a list of strings: ["a", "b"].
JsonList(l) ==
    <<"[">>
    \o Concat([i \in 1..Len(l) |->
                  (IF i = 1 THEN <<>> ELSE <<",", " ">>) \o JsonString(l[i])])
    \o <<"]">>

\* A value held by a JSONField: a list or a string.
JList(l) == [kind |-> "list", v |-> l]
JStr(s) == [kind |-> "str", v |-> s]

\* The JSON text the database holds for a JSONField value.
DbJson(j) == IF j.kind = "list" THEN JsonList(j.v) ELSE JsonString(j.v)

\* __icontains: case-insensitive substring.
IContains(hay, needle) ==
    \E i \in 1..(Len(hay) - Len(needle) + 1) :
        SubSeq(Lower(hay), i, i + Len(needle) - 1) = Lower(needle)

\* ------------------------------------------------------------------ create

\* The keys a create payload may carry.
PayloadKeys == {"id", "user", "course_id", "usage_id", "ranges", "quote", "text", "tags"}

\* `key in data`; a payload names the keys it carries in data.keys.
Has(data, k) == k \in data.keys

\* `not data`: an empty mapping or an empty list.
IsEmptyPayload(data) ==
    IF data.kind = "list" THEN data.items = 0 ELSE data.keys = {}

\* The quota count of post: rows of the payload's (user, course_id) pair.
QuotaCount(data) ==
    Cardinality({n \in notes : n.user_id = data.user /\ n.course_id = data.course_id})

\* Note.create: the ValidationError raised before the object is built.
CreateInvalid(data) ==
    \/ data.kind # "dict"
    \/ IsEmptyPayload(data)
    \/ ~Has(data, "ranges")
    \/ data.ranges = <<>>

\* The unsaved object Note.create returns, cls(**note_data): "user" is renamed
\* to user_id (None when absent) and absent keys take the field defaults.
BuildNote(data) ==
    [user_id |-> IF Has(data, "user") THEN data.user ELSE Null,
     course_id |-> IF Has(data, "course_id") THEN data.course_id ELSE "",
     usage_id |-> IF Has(data, "usage_id") THEN data.usage_id ELSE "",
     quote |-> IF Has(data, "quote") THEN data.quote ELSE <<>>,
     text |-> IF Has(data, "text") THEN data.text ELSE <<>>,
     ranges |-> IF Has(data, "ranges") THEN data.ranges ELSE <<>>,
     tags |-> JList(IF Has(data, "tags") THEN data.tags ELSE <<>>)]

\* Model.full_clean of a built object: null and blank are refused for every
\* field but text, which may be blank.
FullCleanInvalid(obj) ==
    \/ obj.user_id \in {Null, ""}
    \/ obj.course_id \in {Null, ""}
    \/ obj.usage_id \in {Null, ""}
    \/ obj.quote = <<>>
    \/ obj.ranges = <<>>
    \/ obj.tags.v = <<>>

\* The refusal that ends post before the quota is counted, if any.
PostEarlyOutcome(data) ==
    IF IsEmptyPayload(data) \/ (data.kind = "dict" /\ Has(data, "id"))
    THEN [kind |-> "empty_or_id", status |-> BadRequest, body |-> NoBody]
    ELSE IF data.kind # "dict"
    THEN [kind |-> "type_error", status |-> Unhandled, body |-> NoBody]
    ELSE IF ~Has(data, "user") \/ ~Has(data, "course_id")
    THEN [kind |-> "key_error", status |-> Unhandled, body |-> NoBody]
    ELSE [kind |-> "pass", status |-> Ok, body |-> NoBody]

\* The quota test with > for >=.
QuotaReached_OffByOne(data) == QuotaCount(data) > MAX_NOTES_PER_COURSE

\* `total_notes >= settings.MAX_NOTES_PER_COURSE`
QuotaReached(data) == QuotaCount(data) >= MAX_NOTES_PER_COURSE

\* Note.create(data) followed by note.full_clean() raises ValidationError.
ValidationFails(data) == CreateInvalid(data) \/ FullCleanInvalid(BuildNote(data))

\* post with the note built and validated before the quota is counted.
PostOutcome_ValidationFirst(data) ==
    IF PostEarlyOutcome(data).kind # "pass"
    THEN PostEarlyOutcome(data)
    ELSE IF CreateInvalid(data) \/ FullCleanInvalid(BuildNote(data))
    THEN [kind |-> "validation", status |-> BadRequest, body |-> NoBody]
    ELSE IF QuotaCount(data) >= MAX_NOTES_PER_COURSE
    THEN [kind |-> "quota", status |-> BadRequest, body |-> QuotaBody]
    ELSE [kind |-> "save", status |-> Created, body |-> NoBody]

\* The outcome of AnnotationListView.post before note.save(): the response of
\* a refusal, or "save". The quota is counted before the note is built.
PostOutcome(data) ==
    IF PostEarlyOutcome(data).kind # "pass"
    THEN PostEarlyOutcome(data)
    ELSE IF QuotaReached(data)
    THEN [kind |-> "quota", status |-> BadRequest, body |-> QuotaBody]
    ELSE IF ValidationFails(data)
    THEN [kind |-> "validation", status |-> BadRequest, body |-> NoBody]
    ELSE [kind |-> "save", status |-> Created, body |-> NoBody]

\* note.save() of a new object under the lowest key that no row has.
SavedNew_LowestFreeKey(obj, id, t) ==
    [id |-> CHOOSE k \in Ids : k \notin KeysOf(notes)
                               /\ \A j \in 1..(k - 1) : j \in KeysOf(notes),
     user_id |-> obj.user_id, course_id |-> obj.course_id,
     usage_id |-> obj.usage_id, quote |-> obj.quote, text |-> obj.text,
     ranges |-> obj.ranges, tags |-> obj.tags, created |-> t, updated |-> t]

\* note.save() of a new object under a fixed key.
SavedNew_FixedKey(obj, id, t) ==
    [id |-> 1, user_id |-> obj.user_id, course_id |-> obj.course_id,
     usage_id |-> obj.usage_id, quote |-> obj.quote, text |-> obj.text,
     ranges |-> obj.ranges, tags |-> obj.tags, created |-> t, updated |-> t]

\* note.save() of a new object: the key and both timestamps are assigned.
SavedNew(obj, id, t) ==
    [id |-> id, user_id |-> obj.user_id, course_id |-> obj.course_id,
     usage_id |-> obj.usage_id, quote |-> obj.quote, text |-> obj.text,
     ranges |-> obj.ranges, tags |-> obj.tags, created |-> t, updated |-> t]

\* post with the row written before full_clean: a model validation failure
\* answers 400 and leaves the row behind.
Post_SaveBeforeClean(data) ==
    LET out == PostOutcome(data) IN
    /\ esDisabled' = esDisabled
    /\ IF out.kind = "save" \/ (out.kind = "validation" /\ ~CreateInvalid(data))
       THEN /\ nextId <= MaxId
            /\ \E t \in Times :
                 LET note == SavedNew(BuildNote(data), nextId, t) IN
                 /\ now' = t
                 /\ notes' = notes \cup {note}
                 /\ resp' = IF out.kind = "save"
                            THEN [op |-> "create", data |-> data, kind |-> out.kind,
                                  status |-> Created, note |-> note]
                            ELSE [op |-> "create", data |-> data, kind |-> out.kind,
                                  status |-> out.status, body |-> out.body]
            /\ nextId' = nextId + 1
       ELSE /\ UNCHANGED <<notes, nextId, now>>
            /\ resp' = [op |-> "create", data |-> data, kind |-> out.kind,
                        status |-> out.status, body |-> out.body]

\* AnnotationListView.post
Post(data) ==
    LET out == PostOutcome(data) IN
    /\ esDisabled' = esDisabled
    /\ IF out.kind = "save"
       THEN /\ nextId <= MaxId
            /\ \E t \in Times :
                 LET note == SavedNew(BuildNote(data), nextId, t) IN
                 /\ now' = t
                 /\ notes' = notes \cup {note}
                 /\ resp' = [op |-> "create", data |-> data, kind |-> out.kind,
                             status |-> Created, note |-> note]
            /\ nextId' = nextId + 1
       ELSE /\ UNCHANGED <<notes, nextId, now>>
            /\ resp' = [op |-> "create", data |-> data, kind |-> out.kind,
                        status |-> out.status, body |-> out.body]

\* ------------------------------------------------------------------ detail

\* AnnotationDetailView.get
Get(id) ==
    /\ UNCHANGED <<notes, nextId, now, esDisabled>>
    /\ resp' = IF ById(id) = {}
               THEN [op |-> "get", id |-> id, kind |-> "not_found",
                     status |-> NotFound, body |-> NotFoundBody]
               ELSE [op |-> "get", id |-> id, kind |-> "found",
                     status |-> Ok, note |-> CHOOSE n \in ById(id) : TRUE]

\* put that does not miss an absent tags key.
PutOutcome_TagsNotRequired(id, data) ==
    IF ById(id) = {}
    THEN [kind |-> "not_found", status |-> NotFound, body |-> NotFoundBody]
    ELSE IF ~Has(data, "text")
    THEN [kind |-> "key_error", status |-> BadRequest, body |-> NoBody]
    ELSE [kind |-> "save", status |-> Ok, body |-> NoBody]

\* The outcome of AnnotationDetailView.put before note.save().
PutOutcome(id, data) ==
    IF ById(id) = {}
    THEN [kind |-> "not_found", status |-> NotFound, body |-> NotFoundBody]
    ELSE IF ~Has(data, "text") \/ ~Has(data, "tags")
    THEN [kind |-> "key_error", status |-> BadRequest, body |-> NoBody]
    ELSE IF data.text_null
    THEN [kind |-> "validation", status |-> Unhandled, body |-> NoBody]
    ELSE [kind |-> "save", status |-> Ok, body |-> NoBody]

\* A put that saves the row as a new one: created is stamped again.
PutNote_StampsCreated(note, data, t) ==
    [note EXCEPT !.text = data.text,
                 !.tags = JStr(JsonList(data.tags)),
                 !.created = t,
                 !.updated = t]

\* The row put saves: text and tags are assigned (tags as the JSON text of the
\* payload's list) and auto_now refreshes updated.
PutNote(note, data, t) ==
    [note EXCEPT !.text = data.text,
                 !.tags = JStr(JsonList(data.tags)),
                 !.updated = t]

\* AnnotationDetailView.put
Put(id, data) ==
    LET out == PutOutcome(id, data) IN
    /\ UNCHANGED <<nextId, esDisabled>>
    /\ IF out.kind = "save"
       THEN \E t \in Times :
                LET old == CHOOSE n \in ById(id) : TRUE
                    new == PutNote(old, data, t) IN
                /\ now' = t
                /\ notes' = (notes \ {old}) \cup {new}
                /\ resp' = [op |-> "update", id |-> id, data |-> data,
                            kind |-> out.kind, status |-> Ok, note |-> new]
       ELSE /\ UNCHANGED <<notes, now>>
            /\ resp' = [op |-> "update", id |-> id, data |-> data,
                        kind |-> out.kind, status |-> out.status, body |-> out.body]

\* A delete by id that also takes the owner's other rows.
DeleteRows_OwnerToo(id) ==
    {n \in notes : \A d \in ById(id) : n.user_id # d.user_id}

\* The table after Note.objects.get(id=...).delete()
DeleteRows(id) == notes \ ById(id)

\* AnnotationDetailView.delete
Delete(id) ==
    /\ UNCHANGED <<nextId, now, esDisabled>>
    /\ IF ById(id) = {}
       THEN /\ UNCHANGED notes
            /\ resp' = [op |-> "delete", id |-> id, kind |-> "not_found",
                        status |-> NotFound, body |-> NotFoundBody]
       ELSE /\ notes' = DeleteRows(id)
            /\ resp' = [op |-> "delete", id |-> id, kind |-> "deleted",
                        status |-> NoContent, body |-> NoBody]

\* ------------------------------------------------------------------ retire

\* A retirement that only reaches the rows of one course.
RetireRows_OneCourse(user_id) ==
    {n \in notes : n.user_id # user_id \/ n.course_id # "c1"}

\* The table after Note.objects.filter(user_id=user_id).delete()
RetireRows(user_id) == {n \in notes : n.user_id # user_id}

\* AnnotationRetireView.post: `not user_id` refuses an absent or empty user.
Retire(data) ==
    /\ UNCHANGED <<nextId, now, esDisabled>>
    /\ IF ~Has(data, "user") \/ data.user = ""
       THEN /\ UNCHANGED notes
            /\ resp' = [op |-> "retire", data |-> data, kind |-> "no_user",
                        status |-> BadRequest, body |-> NoBody]
       ELSE /\ notes' = RetireRows(data.user)
            /\ resp' = [op |-> "retire", data |-> data, kind |-> "retired",
                        status |-> NoContent, body |-> NoBody]

\* ------------------------------------------------------------------ workers

\* The server's workers: each handles one request at a time, and nothing
\* orders the queries of two workers.
Workers == {"w1", "w2"}

Idle == [pc |-> "idle"]

\* AnnotationListView.post up to note.full_clean(): the count, the quota test
\* and the validation. A refusal is answered at once; otherwise the worker
\* holds the validated note, not yet saved.
PostCheck(w, data) ==
    LET out == PostOutcome(data) IN
    /\ inflight[w] = Idle
    /\ UNCHANGED <<notes, nextId, now, esDisabled, erased>>
    /\ IF out.kind = "save"
       THEN /\ inflight' = [inflight EXCEPT
                               ![w] = [pc |-> "save", data |-> data,
                                       overtaken |-> FALSE]]
            /\ UNCHANGED resp
       ELSE /\ UNCHANGED inflight
            /\ resp' = [op |-> "create", data |-> data, kind |-> out.kind,
                        status |-> out.status, body |-> out.body]

\* AnnotationListView.post from note.save() on: the row is inserted under
\* the next key and the response is Created.
PostSave(w) ==
    /\ inflight[w] # Idle
    /\ nextId <= MaxId
    /\ \E t \in Times :
         LET note == SavedNew(BuildNote(inflight[w].data), nextId, t) IN
         /\ now' = t
         /\ notes' = notes \cup {note}
         /\ resp' = [op |-> "create", data |-> inflight[w].data,
                     kind |-> "save", status |-> Created, note |-> note]
    /\ nextId' = nextId + 1
    /\ inflight' = [inflight EXCEPT ![w] = Idle]
    /\ erased' = IF inflight[w].overtaken THEN erased
                 ELSE erased \ {inflight[w].data.user}
    /\ UNCHANGED esDisabled

\* AnnotationRetireView.post while creates are held: the delete is one query;
\* the creates of the user that are held at that moment were received before
\* the retirement returned.
RetireAmongWorkers(data) ==
    /\ Retire(data)
    /\ IF resp'.status = NoContent
       THEN /\ erased' = erased \cup {data.user}
            /\ inflight' = [w \in Workers |->
                               IF inflight[w] # Idle /\ inflight[w].data.user = data.user
                               THEN [inflight[w] EXCEPT !.overtaken = TRUE]
                               ELSE inflight[w]]
       ELSE UNCHANGED <<inflight, erased>>

\* ------------------------------------------------------------------ search

\* A search request is its query string: the keys it carries, one value for
\* course_id, user and text, and the list of usage_id values (getlist).

\* AnnotationSearchView.is_es_disabled
IsEsDisabled(req) == esDisabled \/ ~Has(req, "text")

\* request.query_params.getlist("usage_id")
UsageIds(req) == IF Has(req, "usage_id") THEN req.usage_id ELSE <<>>

\* AnnotationSearchView.build_query_params_state: usage_id__in is always set,
\* joined with the separator on the search-index path when the list is not
\* empty; the owner key is "user" on the search-index path, else "user_id".
BuildQueryParams(req) ==
    [keys |-> {"usage_id__in"}
              \cup (IF Has(req, "course_id") THEN {"course_id"} ELSE {})
              \cup (IF Has(req, "user")
                    THEN {IF ~IsEsDisabled(req) THEN "user" ELSE "user_id"}
                    ELSE {}),
     usage_id__in |-> [joined |-> UsageIds(req) # <<>> /\ ~IsEsDisabled(req),
                       v |-> UsageIds(req)],
     course_id |-> req.course_id,
     owner |-> req.user]

\* The members of a usage_id__in value as the Record Store reads it; the
\* joined text is one string and not a member list.
InValues(u) == IF u.joined THEN {} ELSE {u.v[i] : i \in 1..Len(u.v)}

\* Note.objects.filter(**query_params) raises FieldError: Note has no field
\* called "user".
FilterRaises(qp) == "user" \in qp.keys

\* The rows of Note.objects.filter(**query_params).
FilterRows(qp) ==
    {n \in notes :
        /\ n.usage_id \in InValues(qp.usage_id__in)
        /\ ("course_id" \in qp.keys => n.course_id = qp.course_id)
        /\ ("user_id" \in qp.keys => n.user_id = qp.owner)}

\* Q(text__icontains=term) | Q(tags__icontains=term)
TextMatches(n, term) == IContains(n.text, term) \/ IContains(DbJson(n.tags), term)

\* The rows of the Record Store branch of get_queryset: the text filter is
\* applied when the text parameter is not empty.
RecordStoreRows(req, qp) ==
    IF Has(req, "text") /\ req.text # <<>>
    THEN {n \in FilterRows(qp) : TextMatches(n, req.text)}
    ELSE FilterRows(qp)

\* The rows in the order in which updated does not decrease.
OrderedByUpdated_OldestFirst(rows) ==
    {q \in [1..Cardinality(rows) -> rows] :
        /\ \A i, j \in 1..Cardinality(rows) : i # j => q[i] # q[j]
        /\ \A i, j \in 1..Cardinality(rows) : i < j => q[i].updated <= q[j].updated}

\* order_by("-updated"): every order of the rows in which updated does not
\* increase (rows with equal timestamps come in any order).
OrderedByUpdated(rows) ==
    {q \in [1..Cardinality(rows) -> rows] :
        /\ \A i, j \in 1..Cardinality(rows) : i # j => q[i] # q[j]
        /\ \A i, j \in 1..Cardinality(rows) : i < j => q[i].updated >= q[j].updated}

\* The hits of self.search.query(): the search engine answers from its own
\* copy of the rows, which may lag behind the table; the default ordering
\* stage asks for them by updated, newest first.
EsHits == UNION {OrderedByUpdated(S) : S \in SUBSET notes}

\* AnnotationSearchView.filter_queryset on the search-index path: the stages
\* in the order of the list the loop walks.
EsStages == <<"filtering", "compound_search", "default_ordering", "highlight">>

\* request.query_params.get("highlight") is truthy
WantsHighlight(req) == Has(req, "highlight") /\ req.highlight # ""

\* The stages that filter_queryset applies: none to a Record Store queryset;
\* on the search-index path the fourth member of the list is HighlightBackend
\* if highlight is asked for and None otherwise, and the loop calls every
\* member, so that without highlight the call of None raises TypeError after
\* the first three stages.
FilterQueryset(req) ==
    IF IsEsDisabled(req)
    THEN [raises |-> FALSE, stages |-> <<>>]
    ELSE IF WantsHighlight(req)
    THEN [raises |-> FALSE, stages |-> EsStages]
    ELSE [raises |-> TRUE, stages |-> SubSeq(EsStages, 1, 3)]

\* The backend a component of the request belongs to.
BackendOf(req) == IF IsEsDisabled(req) THEN "db" ELSE "es"

\* ------------------------------------------------------------------ pages

\* NotesPagination.page_size
NotesPagination_page_size == 25

\* The page size of the paginator of the Record Store path.
RecordStorePageSize == NotesPagination_page_size

\* PageNumberPagination.get_page_size with the page_size query parameter.
PageSize(req, default) == IF Has(req, "page_size") THEN req.page_size ELSE default

\* request.query_params.get("page", 1)
PageNumber(req) == IF Has(req, "page") THEN req.page ELSE 1

\* Paginator.num_pages: an empty list still has its first page.
NumPages(n, s) == IF n = 0 THEN 1 ELSE (n + s - 1) \div s

\* Paginator.page(number): the slice of the page.
PageItems(q, s, p) ==
    SubSeq(q, (p - 1) * s + 1, IF p * s < Len(q) THEN p * s ELSE Len(q))

\* A link to another page of the same request, or null.
NoLink == [link |-> FALSE]
Link(p) == [link |-> TRUE, page |-> p]

PaginatedResponse_NextOnLastPage(q, s, p) ==
    [count |-> Len(q),
     next |-> IF p <= NumPages(Len(q), s) THEN Link(p + 1) ELSE NoLink,
     previous |-> IF p > 1 THEN Link(p - 1) ELSE NoLink,
     current |-> p,
     num_pages |-> NumPages(Len(q), s),
     results |-> PageItems(q, s, p)]

\* NotesPagination.get_paginated_response
PaginatedResponse(q, s, p) ==
    [count |-> Len(q),
     next |-> IF p < NumPages(Len(q), s) THEN Link(p + 1) ELSE NoLink,
     previous |-> IF p > 1 THEN Link(p - 1) ELSE NoLink,
     current |-> p,
     num_pages |-> NumPages(Len(q), s),
     results |-> PageItems(q, s, p)]

\* The response of the paginator of the Record Store path.
RecordStorePaginatedResponse(q, s, p) == PaginatedResponse(q, s, p)

\* paginate_queryset and get_paginated_response: a page outside 1..num_pages
\* is answered with NotFound.
Paginated(head, q, s, p, backend) ==
    IF p \in 1..NumPages(Len(q), s)
    THEN head @@ [kind |-> "list", status |-> Ok]
              @@ (IF backend = "es" THEN PaginatedResponse(q, s, p)
                  ELSE RecordStorePaginatedResponse(q, s, p))
    ELSE head @@ [kind |-> "invalid_page", status |-> NotFound]

\* AnnotationSearchView.get: the query parameters are built; get_queryset
\* builds the Record Store queryset from them first and then chooses by
\* is_es_disabled; filter_queryset walks the stages; the page is cut by the
\* paginator and serialized by the serializer of the path.
Search(req) ==
    LET qp == BuildQueryParams(req)
        fq == FilterQueryset(req)
        head == [op |-> "search", data |-> req, query_params |-> qp,
                 normalized |-> BackendOf(req)]
    IN
    /\ UNCHANGED <<notes, nextId, now, esDisabled>>
    /\ IF FilterRaises(qp)
       THEN resp' = head @@ [kind |-> "field_error", source |-> "none",
                             status |-> Unhandled, built |-> <<"db">>,
                             stages |-> <<>>, serializer |-> "none",
                             paginator |-> "none"]
       ELSE IF IsEsDisabled(req)
       THEN \E q \in OrderedByUpdated(RecordStoreRows(req, qp)) :
                resp' = Paginated(head @@ [source |-> "db", built |-> <<"db">>,
                                           stages |-> fq.stages,
                                           serializer |-> "db",
                                           paginator |-> "db"],
                                  q, PageSize(req, RecordStorePageSize),
                                  PageNumber(req), "db")
       ELSE IF fq.raises
       THEN resp' = head @@ [kind |-> "type_error", source |-> "es",
                             status |-> Unhandled, built |-> <<"db", "es">>,
                             stages |-> fq.stages, serializer |-> "none",
                             paginator |-> "none"]
       ELSE \E q \in EsHits :
                resp' = Paginated(head @@ [source |-> "es",
                                           built |-> <<"db", "es">>,
                                           stages |-> fq.stages,
                                           serializer |-> "es",
                                           paginator |-> "es"],
                                  q, PageSize(req, NotesPagination_page_size),
                                  PageNumber(req), "es")

\* ------------------------------------------------------------------ list

\* The rows of the pair as they were created: rows that were updated later
\* are not seen.
ListRows_OnlyAsCreated(req) ==
    {n \in notes : /\ n.course_id = req.course_id /\ n.user_id = req.user
                   /\ n.updated = n.created /\ n.text = TextA}

\* The rows of Note.objects.filter(course_id=..., user_id=params["user"]).
ListRows(req) ==
    {n \in notes : n.course_id = req.course_id /\ n.user_id = req.user}

\* AnnotationListView.get: BadRequest unless the query string carries both
\* course_id and user; else the rows of the pair, newest update first, cut
\* into the page asked for.
List(req) ==
    LET head == [op |-> "list", data |-> req, source |-> "db"] IN
    /\ UNCHANGED <<notes, nextId, now, esDisabled>>
    /\ IF ~({"course_id", "user"} \subseteq req.keys)
       THEN resp' = head @@ [kind |-> "missing_parameter", status |-> BadRequest]
       ELSE \E q \in OrderedByUpdated(ListRows(req)) :
                resp' = Paginated(head, q, PageSize(req, RecordStorePageSize),
                                  PageNumber(req), "db")

\* ------------------------------------------------------------------ permission

\* settings.CLIENT_ID
CLIENT_ID == "client"

\* The containers of a request that _is_request_user_matched reads, in the
\* order it reads them.
RequestFields == <<"GET", "POST", "data">>

\* _is_request_user_matched from the i-th container on: a container without
\* user is passed over, one whose user is the token's subject counts as found,
\* one whose user is another ends the loop with False; a body that is a list
\* with the item "user" raises on the subscript.
RECURSIVE MatchFrom(_, _, _, _)
MatchFrom(i, user_found, auth_user, req) ==
    IF i > Len(RequestFields)
    THEN (IF user_found THEN "true" ELSE "false")
    ELSE LET c == req[RequestFields[i]] IN
         IF c.kind = "absent" THEN MatchFrom(i + 1, user_found, auth_user, req)
         ELSE IF c.kind = "list" THEN "raises"
         ELSE IF c.user = auth_user THEN MatchFrom(i + 1, TRUE, auth_user, req)
         ELSE "false"

\* A match in one container is enough.
IsRequestUserMatched_AnyContainer(auth_user, req) ==
    IF \E i \in 1..Len(RequestFields) :
           /\ req[RequestFields[i]].kind = "dict"
           /\ req[RequestFields[i]].user = auth_user
    THEN "true"
    ELSE "false"

\* HasAccessToken._is_request_user_matched
IsRequestUserMatched(auth_user, req) == MatchFrom(1, FALSE, auth_user, req)

\* HasAccessToken._validate_token_payload: "ok", or the exception it ends
\* with; a token without aud or sub raises KeyError on the subscript.
ValidateTokenPayload(token, req) ==
    IF ~token.has_aud THEN "key_error"
    ELSE IF token.aud # CLIENT_ID THEN "wrong_issuer"
    ELSE IF ~token.has_sub THEN "key_error"
    ELSE IF IsRequestUserMatched(token.sub, req) = "raises" THEN "type_error"
    ELSE IF IsRequestUserMatched(token.sub, req) = "false"
    THEN "authentication_failed"
    ELSE "ok"

\* HasAccessToken.has_permission: the outcome and whether access is granted.
\* Every exception of the try block is caught and ends in False.
PermissionOutcome(disabled, req) ==
    IF disabled THEN [kind |-> "check_disabled", granted |-> TRUE]
    ELSE IF req.token.kind = "missing"
    THEN [kind |-> "no_token", granted |-> FALSE]
    ELSE IF req.token.kind = "rejected"
    THEN [kind |-> "token_error", granted |-> FALSE]
    ELSE [kind |-> ValidateTokenPayload(req.token, req),
          granted |-> ValidateTokenPayload(req.token, req) = "ok"]

\* The permission check of a request.
HasPermission(disabled, req) ==
    /\ UNCHANGED <<notes, nextId, now, esDisabled>>
    /\ resp' = [op |-> "permission", data |-> req, disabled |-> disabled,
                kind |-> PermissionOutcome(disabled, req).kind,
                granted |-> PermissionOutcome(disabled, req).granted,
                status |-> IF PermissionOutcome(disabled, req).granted
                           THEN Ok ELSE Forbidden]

\* ------------------------------------------------------------------ requests

\* The (user, course_id) pairs of the create requests.
Pairs == {<<"u1", "c1">>, <<"u1", "c2">>, <<"u2", "c1">>}

\* A well-formed create payload.
ValidPayload(u, c) ==
    [kind |-> "dict", items |-> 0, keys |-> PayloadKeys \ {"id"},
     user |-> u, course_id |-> c, usage_id |-> "b1", ranges |-> <<Range1>>,
     quote |-> <<"q">>, text |-> TextA, tags |-> TagsB]

BasePayload == ValidPayload("u1", "c1")

Without(data, k) == [data EXCEPT !.keys = @ \ {k}]

\* The create payloads that are refused whatever the table holds.
BrokenPayloads ==
    {[BasePayload EXCEPT !.keys = {}],
     [BasePayload EXCEPT !.keys = {}, !.kind = "list", !.items = 1],
     [BasePayload EXCEPT !.keys = @ \cup {"id"}],
     Without(BasePayload, "user"),
     Without(BasePayload, "course_id"),
     Without(BasePayload, "ranges"),
     [BasePayload EXCEPT !.ranges = <<>>],
     Without(BasePayload, "quote")}

CreatePayloads == {ValidPayload(p[1], p[2]) : p \in Pairs} \cup BrokenPayloads

\* The update payloads: complete, lacking a key, or with a null text.
FullUpdate == [keys |-> {"text", "tags"}, text |-> TextB, tags |-> TagsA, text_null |-> FALSE]

UpdatePayloads ==
    {FullUpdate,
     Without(FullUpdate, "text"),
     Without(FullUpdate, "tags"),
     [FullUpdate EXCEPT !.text_null = TRUE]}

\* The create payloads behind the searches: notes of three owners' pairs that
\* differ in usage_id, text and tags.
SearchNotePayloads ==
    {[ValidPayload("u1", "c1") EXCEPT !.usage_id = "b1", !.text = TextA, !.tags = TagsB],
     [ValidPayload("u1", "c2") EXCEPT !.usage_id = "b2", !.text = TextB, !.tags = TagsA],
     [ValidPayload("u2", "c1") EXCEPT !.usage_id = "b1", !.text = TextB, !.tags = TagsB]}

\* The query strings: each of course_id, user, usage_id, text and highlight
\* carried or not, text also empty and in the other case, highlight also
\* empty; none of them asks for a page.
SearchRequests ==
    {r \in [keys : SUBSET {"course_id", "user", "usage_id", "text", "highlight"},
            course_id : {"c1"}, user : {"u1"},
            usage_id : {<<"b1">>, <<"b1", "b2">>},
            text : {<<>>, <<"a">>, <<"B">>},
            highlight : {"", "1"}, page : {1}, page_size : {1}] :
        /\ "usage_id" \in r.keys \/ r.usage_id = <<"b1">>
        /\ "text" \in r.keys \/ r.text = <<>>
        /\ "highlight" \in r.keys \/ r.highlight = ""}

\* The page parameters of a query string: page and page_size carried or not.
PageParams ==
    {r \in [keys : SUBSET {"page", "page_size"},
            page : 1..MaxPage, page_size : 1..MaxPageSize] :
        /\ "page" \in r.keys \/ r.page = 1
        /\ "page_size" \in r.keys \/ r.page_size = 1}

\* Searches that ask for a page: over both usage ids, without a term (the
\* Record Store serves them) or with a term and highlight.
PageSearchRequests ==
    {[keys |-> {"usage_id"} \cup t \cup pp.keys, course_id |-> "c1",
      user |-> "u1", usage_id |-> <<"b1", "b2">>,
      text |-> IF t = {} THEN <<>> ELSE <<"b">>,
      highlight |-> IF t = {} THEN "" ELSE "1",
      page |-> pp.page, page_size |-> pp.page_size] :
        t \in {{}, {"text", "highlight"}}, pp \in PageParams}

\* List requests that ask for a page of a pair, and the two that lack a
\* required parameter.
ListPageRequests ==
    {[keys |-> {"course_id", "user"} \cup pp.keys, course_id |-> "c1",
      user |-> "u1", page |-> pp.page, page_size |-> pp.page_size] :
        pp \in PageParams}
    \cup {[keys |-> k, course_id |-> "c1", user |-> "u1", page |-> 1,
           page_size |-> 1] : k \in {{"course_id"}, {"user"}}}

\* The tokens of the x-annotator-auth-token header: none, one that
\* AccessToken rejects (bad signature, expired, malformed), and accepted ones
\* with or without aud and sub.
Tokens ==
    {[kind |-> "missing", has_aud |-> FALSE, aud |-> "", has_sub |-> FALSE, sub |-> ""],
     [kind |-> "rejected", has_aud |-> FALSE, aud |-> "", has_sub |-> FALSE, sub |-> ""]}
    \cup {t \in [kind : {"accepted"}, has_aud : BOOLEAN, aud : {"", CLIENT_ID, "other"},
                 has_sub : BOOLEAN, sub : {"", "u1", "u2"}] :
             /\ t.has_aud <=> t.aud # ""
             /\ t.has_sub <=> t.sub # ""}

\* A container of a request: without user, or a mapping with a user.
UserContainers ==
    {[kind |-> "absent", user |-> ""], [kind |-> "dict", user |-> "u1"],
     [kind |-> "dict", user |-> "u2"]}

\* The requests the permission is asked for; the body can also be a list
\* that holds the string "user".
PermissionRequests ==
    [token : Tokens, GET : UserContainers, POST : UserContainers,
     data : UserContainers \cup {[kind |-> "list", user |-> ""]}]

\* The create payloads behind the reads: the same course for two users.
ReadNotePayloads == {ValidPayload("u1", "c1"), ValidPayload("u2", "c1")}

\* List requests without page parameters: each user's pair, and the two that
\* lack a required parameter.
ListRequests ==
    {[keys |-> k, course_id |-> "c1", user |-> u, page |-> 1, page_size |-> 1] :
        k \in {{"course_id", "user"}}, u \in {"u1", "u2"}}
    \cup {[keys |-> k, course_id |-> "c1", user |-> "u1", page |-> 1,
           page_size |-> 1] : k \in {{"course_id"}, {"user"}}}

\* Searches of one usage id over all owners: without a term, and with a term
\* and highlight.
ReadSearchRequests ==
    {[keys |-> {"usage_id"} \cup t, course_id |-> "c1", user |-> "u1",
      usage_id |-> <<"b1">>, text |-> IF t = {} THEN <<>> ELSE <<"b">>,
      highlight |-> IF t = {} THEN "" ELSE "1", page |-> 1, page_size |-> 1] :
        t \in {{}, {"text", "highlight"}}}

RetirePayloads ==
    {[keys |-> {"user"}, user |-> "u1"],
     [keys |-> {"user"}, user |-> "u2"],
     [keys |-> {}, user |-> ""]}

\* ------------------------------------------------------------------ behaviours

Init ==
    /\ notes = {}
    /\ nextId = 1
    /\ now = 0
    /\ esDisabled \in BOOLEAN
    /\ resp = [op |-> "none", kind |-> "none", status |-> Ok, body |-> NoBody]
    /\ inflight = [w \in Workers |-> Idle]
    /\ erased = {}

DoPost ==
    \E data \in CreatePayloads :
        Post(data) /\ UNCHANGED <<inflight, erased>>
DoGet ==
    \E id \in Ids :
        Get(id) /\ UNCHANGED <<inflight, erased>>
DoPut ==
    \E id \in Ids : \E data \in UpdatePayloads :
        Put(id, data) /\ UNCHANGED <<inflight, erased>>
DoDelete ==
    \E id \in Ids :
        Delete(id) /\ UNCHANGED <<inflight, erased>>
DoRetire ==
    \E data \in RetirePayloads :
        Retire(data) /\ UNCHANGED <<inflight, erased>>

Next == DoPost \/ DoGet \/ DoPut \/ DoDelete \/ DoRetire

\* Requests are handled one at a time, each handler as one step.
Spec == Init /\ [][Next]_vars

DoSearchPost ==
    \E data \in SearchNotePayloads :
        Post(data) /\ UNCHANGED <<inflight, erased>>
DoSearch ==
    \E req \in SearchRequests :
        Search(req) /\ UNCHANGED <<inflight, erased>>

SearchNext == DoSearchPost \/ DoSearch

\* The search view over the tables that creates build.
SearchSpec == Init /\ [][SearchNext]_vars

DoPageSearch ==
    \E req \in PageSearchRequests :
        Search(req) /\ UNCHANGED <<inflight, erased>>
DoPageList ==
    \E req \in ListPageRequests :
        List(req) /\ UNCHANGED <<inflight, erased>>

PageNext == DoSearchPost \/ DoPageSearch \/ DoPageList

\* Lists and searches that ask for pages of the tables that creates build.
PageSpec == Init /\ [][PageNext]_vars

\* The create payloads of the workers: one pair of each of two users, and a
\* payload that validation refuses.
WorkerPayloads ==
    {ValidPayload("u1", "c1"), ValidPayload("u2", "c1"),
     Without(BasePayload, "ranges")}

DoPostCheck == \E w \in Workers : \E data \in WorkerPayloads : PostCheck(w, data)
DoPostSave == \E w \in Workers : PostSave(w)
DoRetireAmongWorkers == \E data \in RetirePayloads : RetireAmongWorkers(data)

WorkersNext == DoPostCheck \/ DoPostSave \/ DoRetireAmongWorkers

\* Creates and retirements handled by workers whose queries interleave.
WorkersSpec == Init /\ [][WorkersNext]_vars

DoHasPermission ==
    \E disabled \in BOOLEAN : \E req \in PermissionRequests :
        HasPermission(disabled, req) /\ UNCHANGED <<inflight, erased>>

PermissionNext == DoHasPermission

\* The permission check over the requests, with the token check on and off.
PermissionSpec == Init /\ [][PermissionNext]_vars

DoReadPost ==
    \E data \in ReadNotePayloads :
        Post(data) /\ UNCHANGED <<inflight, erased>>
DoReadPut ==
    \E id \in Ids :
        Put(id, FullUpdate) /\ UNCHANGED <<inflight, erased>>
DoReadList ==
    \E req \in ListRequests :
        List(req) /\ UNCHANGED <<inflight, erased>>
DoReadSearch ==
    \E req \in ReadSearchRequests :
        Search(req) /\ UNCHANGED <<inflight, erased>>

ReadNext == DoReadPost \/ DoReadPut \/ DoDelete \/ DoGet \/ DoReadList \/ DoReadSearch

\* Writes of notes, each followed by any reads: get by id, list and search.
ReadSpec == Init /\ [][ReadNext]_vars

\* ------------------------------------------------------------------ properties

\* The rows of a table that share a (user_id, course_id) pair.
PairCount(table, u, c) ==
    Cardinality({n \in table : n.user_id = u /\ n.course_id = c})

\* A create payload that gets as far as the quota: a non-empty mapping
\* without id that names the pair.
NamesPair(data) ==
    /\ data.kind = "dict"
    /\ "id" \notin data.keys
    /\ {"user", "course_id"} \subseteq data.keys

\* A create payload with missing or empty ranges.
LacksRanges(data) == "ranges" \notin data.keys \/ data.ranges = <<>>

\* A create payload that is structurally complete and passes model validation.
WellFormed(data) ==
    /\ NamesPair(data)
    /\ {"usage_id", "ranges", "quote", "tags"} \subseteq data.keys
    /\ data.ranges # <<>>
    /\ data.quote # <<>>
    /\ data.tags # <<>>

\* C1: with requests handled one at a time no (user_id, course_id) pair ever
\* holds more than the maximum number of notes, and a create for a pair that
\* holds the maximum is refused with BadRequest and the message naming the
\* maximum, the pair still holding exactly the maximum.
C1_QuotaNeverExceeded ==
    /\ [](\A n \in notes : PairCount(notes, n.user_id, n.course_id) <= MAX_NOTES_PER_COURSE)
    /\ [][(/\ resp'.op = "create"
           /\ NamesPair(resp'.data)
           /\ PairCount(notes, resp'.data.user, resp'.data.course_id) = MAX_NOTES_PER_COURSE)
          => (/\ resp'.status = BadRequest
              /\ resp'.body = [type |-> "error_msg", max_num |-> MAX_NOTES_PER_COURSE]
              /\ notes' = notes
              /\ PairCount(notes', resp'.data.user, resp'.data.course_id)
                     = MAX_NOTES_PER_COURSE)]_vars

\* C1 witness: a create was refused with the quota message, its pair holding
\* the maximum while another note exists or was created.
C1_Witness ==
    /\ resp.op = "create"
    /\ resp.status = BadRequest
    /\ resp.body = [type |-> "error_msg", max_num |-> MAX_NOTES_PER_COURSE]
    /\ PairCount(notes, resp.data.user, resp.data.course_id) = MAX_NOTES_PER_COURSE
    /\ nextId > MAX_NOTES_PER_COURSE + 1

\* C2: a create that does not answer 201 leaves the table (and its key
\* counter) as it was, and a create answers 201 only for a well-formed payload
\* whose pair is below the maximum, adding exactly the new row.
C2_FailedCreateWritesNothing ==
    [][resp'.op = "create"
       => IF resp'.status = Created
          THEN /\ WellFormed(resp'.data)
               /\ PairCount(notes, resp'.data.user, resp'.data.course_id)
                      < MAX_NOTES_PER_COURSE
               /\ notes' = notes \cup {resp'.note}
               /\ resp'.note \notin notes
          ELSE notes' = notes /\ nextId' = nextId]_vars

\* C2 witness: a create was refused by model validation (the quote is
\* missing) while the table holds a note.
C2_Witness ==
    /\ resp.op = "create"
    /\ resp.status = BadRequest
    /\ resp.body = [type |-> "none"]
    /\ NamesPair(resp.data)
    /\ ~LacksRanges(resp.data)
    /\ "quote" \notin resp.data.keys
    /\ notes # {}

\* C6: a successful update replaces the row of that id by a row that differs
\* from it in text, tags and updated only (text and tags from the payload,
\* updated the time of the save), and leaves every other row alone.
C6_UpdateFrame ==
    [][(resp'.op = "update" /\ resp'.status = Ok)
       => \E old \in notes :
            /\ old.id = resp'.id
            /\ resp'.note.id = old.id
            /\ resp'.note.user_id = old.user_id
            /\ resp'.note.course_id = old.course_id
            /\ resp'.note.usage_id = old.usage_id
            /\ resp'.note.quote = old.quote
            /\ resp'.note.created = old.created
            /\ resp'.note.ranges = old.ranges
            /\ resp'.note.text = resp'.data.text
            /\ resp'.note.tags.v = JsonList(resp'.data.tags)
            /\ resp'.note.updated = now'
            /\ resp'.note.updated >= old.updated
            /\ notes' \ {resp'.note} = notes \ {old}
            /\ resp'.note \in notes']_vars

\* C6 witness: an update succeeded on a note created earlier, next to another
\* note.
C6_Witness ==
    /\ resp.op = "update"
    /\ resp.status = Ok
    /\ resp.note.updated > resp.note.created
    /\ resp.note.text = resp.data.text
    /\ Cardinality(notes) >= 2

\* C7: an update of an id that no row has answers NotFound, and an update of
\* an existing row whose payload lacks text or tags answers BadRequest; the
\* table is unchanged in both cases.
C7_UpdateRefusals ==
    [][resp'.op = "update"
       => /\ (\A n \in notes : n.id # resp'.id)
                => (resp'.status = NotFound /\ notes' = notes)
          /\ (/\ \E n \in notes : n.id = resp'.id
              /\ ~({"text", "tags"} \subseteq resp'.data.keys))
                => (resp'.status = BadRequest /\ notes' = notes)]_vars

\* C7 witness: an update carrying a new text but no tags was refused with
\* BadRequest, the note keeping another text.
C7_Witness ==
    /\ resp.op = "update"
    /\ resp.status = BadRequest
    /\ "text" \in resp.data.keys
    /\ "tags" \notin resp.data.keys
    /\ \E n \in notes : n.id = resp.id /\ n.text # resp.data.text

\* C8: a retirement that names a user answers success and removes exactly the
\* rows of that user, whatever their course and however many there are; the
\* same retirement repeated at once answers success again and changes nothing;
\* a retirement without a user answers BadRequest and removes nothing.
C8_RetireFrame ==
    [][resp'.op = "retire"
       => IF "user" \in resp'.data.keys
          THEN /\ resp'.status = NoContent
               /\ notes' = {n \in notes : n.user_id # resp'.data.user}
               /\ (resp.op = "retire" /\ resp.status = NoContent
                   /\ resp.data.user = resp'.data.user) => notes' = notes
          ELSE resp'.status = BadRequest /\ notes' = notes]_vars

\* C8 witness: after two creates a retirement of u1 succeeded and a note of
\* another user is still there.
C8_Witness ==
    /\ resp.op = "retire"
    /\ resp.status = NoContent
    /\ resp.data.user = "u1"
    /\ nextId = 3
    /\ Cardinality(notes) = 1
    /\ \A n \in notes : n.user_id = "u2"

\* C9: a delete of an id that no row has answers NotFound and changes
\* nothing; a delete of an existing id answers 204 without content and removes
\* exactly that row.
C9_DeleteFrame ==
    [][resp'.op = "delete"
       => IF \A n \in notes : n.id # resp'.id
          THEN resp'.status = NotFound /\ notes' = notes
          ELSE /\ resp'.status = NoContent
               /\ resp'.body = [type |-> "none"]
               /\ notes' = {n \in notes : n.id # resp'.id}]_vars

\* C9 witness: a delete succeeded and another note is still there.
C9_Witness ==
    /\ resp.op = "delete"
    /\ resp.status = NoContent
    /\ nextId = 3
    /\ Cardinality(notes) = 1
    /\ \A n \in notes : n.id # resp.id

\* C10 as stated: a create with missing or empty ranges is refused with the
\* plain BadRequest of a validation error, never with the quota message, also
\* when its pair holds the maximum.
C10_ValidationBeforeQuota ==
    (resp.op = "create" /\ NamesPair(resp.data) /\ LacksRanges(resp.data))
        => (resp.status = BadRequest /\ resp.body = [type |-> "none"])

\* C10 amended: the quota is counted before the note is built, so a create
\* with missing or empty ranges is refused with BadRequest, carrying the quota
\* message if its pair holds the maximum and no message otherwise.
C10_QuotaBeforeValidation ==
    (resp.op = "create" /\ NamesPair(resp.data) /\ LacksRanges(resp.data))
        => /\ resp.status = BadRequest
           /\ resp.body =
                IF PairCount(notes, resp.data.user, resp.data.course_id)
                       >= MAX_NOTES_PER_COURSE
                THEN [type |-> "error_msg", max_num |-> MAX_NOTES_PER_COURSE]
                ELSE [type |-> "none"]

\* C10 witness: a create without ranges was refused with the quota message.
C10_Witness ==
    /\ resp.op = "create"
    /\ NamesPair(resp.data)
    /\ LacksRanges(resp.data)
    /\ resp.body = [type |-> "error_msg", max_num |-> MAX_NOTES_PER_COURSE]

\* The rows a search response lists.
Listed(r) == {r.results[i] : i \in 1..Len(r.results)}

\* The rows that pass the exact-match filters a query string carries: a
\* parameter that is absent restricts nothing.
CarriedFilters(req) ==
    {n \in notes :
        /\ ("course_id" \in req.keys => n.course_id = req.course_id)
        /\ ("user" \in req.keys => n.user_id = req.user)
        /\ ("usage_id" \in req.keys
               => \E i \in 1..Len(req.usage_id) : n.usage_id = req.usage_id[i])}

\* A query string with a text term that is not empty.
HasTerm(req) == "text" \in req.keys /\ req.text # <<>>

\* C3 as stated: a search is answered from the search index if the backend is
\* enabled and the text parameter is present and not empty, and from the
\* Record Store in every other case.
C3_IndexIffNonEmptyText ==
    resp.op = "search"
        => resp.source = (IF ~esDisabled /\ HasTerm(resp.data) THEN "es" ELSE "db")

\* C4 as stated: a search without a text term that the Record Store serves
\* lists exactly the rows that pass the filters the query string carries.
C4_AbsentFilterRestrictsNothing ==
    (resp.op = "search" /\ resp.source = "db" /\ ~HasTerm(resp.data))
        => Listed(resp) = CarriedFilters(resp.data)

Malformed(data) ==
    \/ data.kind # "dict"
    \/ data.keys = {}
    \/ LacksRanges(data)
    \/ "user" \notin data.keys
    \/ "course_id" \notin data.keys

\* C11 as stated: a create whose payload is malformed or incomplete is
\* answered with BadRequest, never with an exception that nothing handles.
C11_MalformedCreateIsBadRequest ==
    (resp.op = "create" /\ Malformed(resp.data)) => resp.status = BadRequest
\* The number of rows a Record Store response is about: the rows of the
\* queryset of its request. The hits of the search engine are counted by the
\* engine.
MatchCount(r) ==
    IF r.op = "list" THEN Cardinality(ListRows(r.data))
    ELSE IF r.source = "db"
    THEN Cardinality(RecordStoreRows(r.data, r.query_params))
    ELSE r.count

\* The page size in force for a response.
SizeOf(r) ==
    PageSize(r.data, IF r.source = "es" THEN NotesPagination_page_size
                     ELSE RecordStorePageSize)

CeilDiv(n, s) == (n + s - 1) \div s

EnvelopeKeys == {"count", "next", "previous", "current", "num_pages", "results"}

\* Sixty notes, as their positions in the order of the list.
SixtyNotes == [i \in 1..60 |-> i]

C13_OneBackendPerRequest ==
    resp.op = "search"
        => \E b \in {"db", "es"} :
               /\ resp.normalized = b
               /\ \A i \in 1..Len(resp.built) : resp.built[i] = b
               /\ resp.stages # <<>> => b = "es"
               /\ resp.serializer \in {b, "none"}
               /\ resp.paginator \in {b, "none"}

\* C18 as stated: on the search-index path the stages run in the order
\* exact-match, compound text search, default ordering, highlight; highlight
\* is applied only if the request carries a non-empty highlight parameter and
\* is otherwise skipped, the request completing with the first three stages;
\* on the Record Store path no stage is applied.
C18_HighlightIsOptIn ==
    (resp.op = "search" /\ resp.kind # "field_error")
        => IF BackendOf(resp.data) = "es"
           THEN /\ resp.stages = (IF WantsHighlight(resp.data) THEN EsStages
                                  ELSE SubSeq(EsStages, 1, 3))
                /\ resp.status # Unhandled
           ELSE resp.stages = <<>> /\ resp.status # Unhandled

\* C14: the count and the insert of a create are not one step, so two
\* creates for a pair can both pass the quota test and both insert, the pair
\* then holding one note more than the maximum; each create that succeeds
\* adds exactly one note, under a key no other note has or had.
C14_EachCreateAddsOneNote ==
    [][(resp' # resp /\ resp'.op = "create" /\ resp'.status = Created)
          => /\ notes' = notes \cup {resp'.note}
             /\ resp'.note.id \notin KeysOf(notes)
             /\ resp'.note.id >= nextId
             /\ nextId' > resp'.note.id
             /\ \A a, b \in notes' : a.id = b.id => a = b]_vars

\* Two creates for a pair were both let through by the quota test and both
\* saved: the pair holds one note more than the maximum.
C14_Witness ==
    /\ resp.op = "create"
    /\ resp.status = Created
    /\ PairCount(notes, resp.note.user_id, resp.note.course_id)
           = MAX_NOTES_PER_COURSE + 1

C15_DeletedIsTerminal ==
    [][\A id \in Ids :
          (id < nextId /\ id \notin KeysOf(notes))
             => /\ id \notin KeysOf(notes')
                /\ (resp'.op \in {"get", "update", "delete"} /\ resp'.id = id)
                      => resp'.status = NotFound
                /\ (resp'.op = "create" /\ resp'.status = Created)
                      => resp'.note.id # id
                /\ nextId' >= nextId]_vars

\* A note was deleted, a later create was given another key, and a get of the
\* deleted key answered NotFound.
C15_Witness ==
    /\ resp.op = "get"
    /\ resp.status = NotFound
    /\ resp.id < nextId
    /\ \E n \in notes : n.id > resp.id

\* The containers of a request that carry a user.
Carrying(req) ==
    {i \in 1..Len(RequestFields) : req[RequestFields[i]].kind # "absent"}

\* C19: with the token check on, access is granted only to a request with a
\* token that is accepted, whose aud is the client id and whose sub is the
\* user of every container that carries one, at least one carrying it; no
\* user anywhere, another user in some container and no token are denied, and
\* no request ends in an exception. With the check off every request is
\* granted.
C19_AccessOnlyForMatchingToken ==
    resp.op = "permission"
        => LET req == resp.data IN
           IF resp.disabled THEN resp.granted
           ELSE /\ resp.granted
                     => /\ req.token.kind = "accepted"
                        /\ req.token.has_aud /\ req.token.aud = CLIENT_ID
                        /\ req.token.has_sub
                        /\ Carrying(req) # {}
                        /\ \A i \in Carrying(req) :
                              /\ req[RequestFields[i]].kind = "dict"
                              /\ req[RequestFields[i]].user = req.token.sub
                /\ Carrying(req) = {} => ~resp.granted
                /\ (\E i \in Carrying(req) :
                       req[RequestFields[i]].user # req.token.sub) => ~resp.granted
                /\ req.token.kind = "missing" => ~resp.granted
                /\ resp.status \in {Ok, Forbidden}

\* Access was granted, with the check on, to a request that names the token's
\* subject in two containers and carries no user in the third.
C19_Witness ==
    /\ resp.op = "permission"
    /\ ~resp.disabled
    /\ resp.granted
    /\ Cardinality(Carrying(resp.data)) = 2

\* A list response for the pair of a note.
ListsPairOf(r, n) ==
    /\ r.op = "list"
    /\ r.kind = "list"
    /\ r.data.course_id = n.course_id
    /\ r.data.user = n.user_id

\* C16: reads that the Record Store serves see the writes before them: after
\* a create that succeeded, the get of the returned id and the list of the
\* note's pair return the note; after an update that succeeded they return
\* the row with the new text and tags; after a delete that succeeded the get
\* answers NotFound and the list does not hold the note.
C16_ReadYourWrites ==
    [][/\ (resp.op \in {"create", "update"} /\ resp.status \in {Created, Ok})
            => /\ (resp'.op = "get" /\ resp'.id = resp.note.id)
                     => (resp'.status = Ok /\ resp'.note = resp.note)
               /\ ListsPairOf(resp', resp.note) => resp.note \in Listed(resp')
               /\ resp.op = "update"
                     => /\ resp.note.text = resp.data.text
                        /\ resp.note.tags.v = JsonList(resp.data.tags)
       /\ (resp.op = "delete" /\ resp.status = NoContent)
            => /\ (resp'.op = "get" /\ resp'.id = resp.id)
                     => resp'.status = NotFound
               /\ (resp'.op = "list" /\ resp'.kind = "list")
                     => \A n \in Listed(resp') : n.id # resp.id]_vars

\* A list that follows an update returned the updated note with its new text.
C16_Witness ==
    /\ resp.op = "list"
    /\ resp.kind = "list"
    /\ \E n \in Listed(resp) : n.updated > n.created /\ n.text = FullUpdate.text

====
